---- MODULE Spec2Model ----
(***************************************************************************)
(* Equipment lifecycle and transaction ledger of the sound warehouse       *)
(* manager.  The handlers are async functions that issue one database      *)
(* statement per await and open no database transaction, so every          *)
(* statement is one atomic step and statements of different calls          *)
(* interleave.  Every statement is an operator from the store and the      *)
(* invocation to their possible successors; a handler called alone is the  *)
(* run of its statements to the end.                                       *)
(***************************************************************************)
EXTENDS Integers, Sequences, FiniteSets, TLC

\* ------------------------------------------------------------- bounds
MaxTx == 2
MaxTime == 1
MaxAdmins == 2

\* ------------------------------------------------------------- values
NULL == "null"
UNDEF == "undefined"
NullDate == -1
UndefDate == -2

Statuses == {"available", "checked_out", "booked", "maintenance"}
TransactionTypes == {"check_out", "check_in", "booking"}

Procs == {1, 2}
EquipIds == {1, 2}
AdminIds == {1, 2}
Dates == 0..MaxTime

\* `x || null` on an optional string: undefined, null and '' all become null.
OrNull(x) == IF x \in {UNDEF, NULL, ""} THEN NULL ELSE x

\* `d || null` on an optional Date: undefined and null become null.
OrNullDate(d) == IF d \in {UndefDate, NullDate} THEN NullDate ELSE d

VARIABLES
    admins,        \* adminsTable: id -> row
    equipment,     \* equipmentTable: id -> row
    transactions,  \* equipmentTransactionsTable: id -> row
    nextEquipId,   \* serial sequence of equipment.id
    nextTxId,      \* serial sequence of equipment_transactions.id
    nextAdminId,   \* serial sequence of admins.id
    now,           \* the clock read by new Date() and defaultNow()
    forced,        \* items whose status was overwritten to available while a row was open
    calls          \* per concurrent caller: the handler invocation in flight

vars == <<admins, equipment, transactions, nextEquipId, nextTxId, nextAdminId, now, forced, calls>>

\* The store and the clock as one value.
World ==
    [admins |-> admins, equipment |-> equipment, transactions |-> transactions,
     nextEquipId |-> nextEquipId, nextTxId |-> nextTxId, nextAdminId |-> nextAdminId,
     now |-> now, forced |-> forced]

\* The store and the clock become `w`.
Become(w) ==
    /\ admins' = w.admins
    /\ equipment' = w.equipment
    /\ transactions' = w.transactions
    /\ nextEquipId' = w.nextEquipId
    /\ nextTxId' = w.nextTxId
    /\ nextAdminId' = w.nextAdminId
    /\ now' = w.now
    /\ forced' = w.forced

\* ------------------------------------------------------------- queries
\* WHERE equipment_id = e AND actual_return_date IS NULL
OpenTxOf(txs, e) ==
    {t \in DOMAIN txs : txs[t].equipment_id = e /\ txs[t].actual_return_date = NullDate}

\* WHERE equipment_id = e
TxOf(txs, e) == {t \in DOMAIN txs : txs[t].equipment_id = e}

\* Mutation of LastOpenTx: the select orders by created_at ascending.
LastOpenTx_Oldest(txs, e) ==
    {t \in OpenTxOf(txs, e) :
        \A u \in OpenTxOf(txs, e) : txs[u].created_at >= txs[t].created_at}

\* ORDER BY created_at DESC LIMIT 1 over the open rows: the candidates (ties are
\* returned in an order the store does not fix).
LastOpenTx(txs, e) ==
    {t \in OpenTxOf(txs, e) :
        \A u \in OpenTxOf(txs, e) : txs[u].created_at <= txs[t].created_at}

\* Remove the rows `ids` from table `tbl`.
DeleteRows(tbl, ids) == [k \in (DOMAIN tbl) \ ids |-> tbl[k]]

\* Add row `row` under key `id` to table `tbl`.
InsertRow(tbl, id, row) == [k \in (DOMAIN tbl) \cup {id} |-> IF k = id THEN row ELSE tbl[k]]

\* Foreign keys of equipment_transactions.
FkOk(w, row) ==
    row.equipment_id \in DOMAIN w.equipment /\ row.admin_id \in DOMAIN w.admins

\* Mutation of SerialFree: serial_number carries no unique constraint.
SerialFree_Unconstrained(w, id, sn) == TRUE

\* Unique constraint on equipment.serial_number, for a row `id` taking serial `sn`.
SerialFree(w, id, sn) ==
    \A k \in DOMAIN w.equipment : k # id => w.equipment[k].serial_number # sn

\* ------------------------------------------------------------- invocations
\* A caller with no invocation.
Idle == [pc |-> "idle", op |-> "none", input |-> NULL, loc |-> 0,
         kind |-> "none", err |-> <<>>, rows |-> {}]

\* The invocation of handler `op` entered with `input`, before its first statement `pc`.
Entered(op, pc, input) ==
    [pc |-> pc, op |-> op, input |-> input, loc |-> 0,
     kind |-> "none", err |-> <<>>, rows |-> {}]

\* One successor.
One(w, c) == {[w |-> w, c |-> c]}

\* The invocation `c` awaiting its statement `pc`.
At(c, pc) == [c EXCEPT !.pc = pc]

\* The invocation `c` finished, returning a value of sort `kind`.
Returned(c, kind) == [c EXCEPT !.pc = "done", !.kind = kind]

\* The invocation `c` finished, returning the row `row`.
ReturnedRow(c, kind, row) == [c EXCEPT !.pc = "done", !.kind = kind, !.rows = {row}]

\* The invocation `c` finished by rethrowing an error with message `msg`.
Thrown(c, msg) == [c EXCEPT !.pc = "done", !.kind = "error", !.err = msg]

\* The message `msg` contains the text `s`.
Contains(msg, s) == \E i \in DOMAIN msg : msg[i] = s

\* ------------------------------------------------------------- error messages
AdminNotFound(id) == <<"Admin with id ", ToString(id), " not found">>
EquipmentNotFound(id) == <<"Equipment with id ", ToString(id), " not found">>
NotAvailable(status) == <<"Equipment is not available (current status: ", status, ")">>
\* Mutation of NotAvailableForBooking: the message leaves the status out.
NotAvailableForBooking_NoStatus(status) == <<"Equipment is not available for booking">>

NotAvailableForBooking(status) ==
    <<"Equipment is not available for booking. Current status: ", status>>
CheckInNotFound(id) == <<"Equipment with ID ", ToString(id), " not found">>
CannotCheckIn(status) == <<"Equipment is currently ", status, ", cannot check in">>
ActiveTransactions ==
    <<"Cannot delete equipment with active transactions. Please check in equipment first.">>
ForeignKeyViolation == <<"violates foreign key constraint">>
UniqueViolation == <<"duplicate key value violates unique constraint">>

\* ------------------------------------------------------------- inputs
Serials == {"SN1", "SN2"}

\* An expected_return_date given by a caller.
DueDate == 9

CreateEquipmentInputs ==
    {[name |-> "Mixer", serial_number |-> sn, description |-> "", category |-> "Audio",
      brand |-> "Yamaha", model |-> UNDEF, status |-> s] : sn \in Serials, s \in Statuses}

NoPatch == [name |-> UNDEF, serial_number |-> UNDEF, description |-> UNDEF,
            category |-> UNDEF, brand |-> UNDEF, model |-> UNDEF, status |-> UNDEF]

UpdateEquipmentPatches ==
    {NoPatch, [NoPatch EXCEPT !.name = "Mixer v2", !.brand = NULL]}
    \cup {[NoPatch EXCEPT !.serial_number = "SN2"]}
    \cup {[NoPatch EXCEPT !.status = s] : s \in {"available", "maintenance"}}

Borrowers ==
    {[user_name |-> "Alice", user_contact |-> UNDEF, notes |-> "", expected_return_date |-> UndefDate],
     [user_name |-> "Bob", user_contact |-> "555", notes |-> "tour", expected_return_date |-> DueDate]}

Bookers ==
    {[user_name |-> "Carol", user_contact |-> NULL, notes |-> UNDEF]}

CheckOutEquipmentInputs ==
    {[equipment_id |-> e, admin_id |-> a, user_name |-> b.user_name,
      user_contact |-> b.user_contact, notes |-> b.notes,
      expected_return_date |-> b.expected_return_date] :
        e \in EquipIds, a \in AdminIds, b \in Borrowers}

\* bookEquipmentInputSchema: expected_return_date is z.coerce.date(), a Date.
BookEquipmentInputs ==
    {[equipment_id |-> e, admin_id |-> a, user_name |-> b.user_name,
      user_contact |-> b.user_contact, notes |-> b.notes,
      expected_return_date |-> d] :
        e \in EquipIds, a \in AdminIds, b \in Bookers, d \in {DueDate}}

CheckInEquipmentInputs ==
    {[equipment_id |-> e, admin_id |-> a, notes |-> n] :
        e \in EquipIds, a \in AdminIds, n \in {UNDEF}}


\* Passwords that createAdminInputSchema accepts (six characters or more).
Passwords == {"password123", "wrongpassword"}

\* The salts Bun.password.hash can draw.
Salts == {"c2FsdDE", "c2FsdDI"}

CreateAdminInputs ==
    {[username |-> "testadmin", email |-> "test@example.com", password |-> pw] : pw \in Passwords}
    \cup {[username |-> "admin2", email |-> "admin2@example.com", password |-> pw] : pw \in Passwords}

LoginAdminInputs ==
    {[username |-> u, password |-> pw] : u \in {"testadmin", "admin2"}, pw \in Passwords}

\* ------------------------------------------------------------- password hashes
\* hashPassword of loginAdmin: the SHA-256 digest of the password as 64 hex digits.
Sha256Hex(pw) ==
    CASE pw = "password123" -> "ef92b778bafe771e89245b89ecbc08a44a4e166c06659911881f383d4473e94f"
      [] pw = "wrongpassword" -> "8ecd67dceb90a898b1f94bddf570ce1c23629cd328140d81f1e02e43d42eb44e"

\* Mutation of BunPasswordHash: createAdmin stores what loginAdmin computes.
BunPasswordHash_Sha256(pw, salt) == Sha256Hex(pw)

\* Bun.password.hash: an argon2id string in PHC format, which carries the parameters,
\* the salt drawn for this call and the digest (written here by a tag per password and
\* salt).
BunPasswordHash(pw, salt) ==
    CASE pw = "password123" /\ salt = "c2FsdDE" -> "$argon2id$v=19$m=65536,t=2,p=1$c2FsdDE$digest-1-1"
      [] pw = "password123" /\ salt = "c2FsdDI" -> "$argon2id$v=19$m=65536,t=2,p=1$c2FsdDI$digest-1-2"
      [] pw = "wrongpassword" /\ salt = "c2FsdDE" -> "$argon2id$v=19$m=65536,t=2,p=1$c2FsdDE$digest-2-1"
      [] pw = "wrongpassword" /\ salt = "c2FsdDI" -> "$argon2id$v=19$m=65536,t=2,p=1$c2FsdDI$digest-2-2"

\* ------------------------------------------------------------- rows
\* The admin row createAdmin inserts.
NewAdmin(id, input, hash, t) ==
    [id |-> id, username |-> input.username, email |-> input.email,
     password_hash |-> hash, created_at |-> t, updated_at |-> t]

\* The equipment row createEquipment inserts.
NewEquipment(id, input, t) ==
    [id |-> id, name |-> input.name, serial_number |-> input.serial_number,
     description |-> OrNull(input.description), category |-> input.category,
     brand |-> OrNull(input.brand), model |-> OrNull(input.model),
     status |-> IF OrNull(input.status) = NULL THEN "available" ELSE input.status,
     created_at |-> t, updated_at |-> t]

\* Mutation of Lendable: a booked item can be lent as well.
Lendable_OrBooked(status) == status \in {"available", "booked"}

\* The status precondition of checkOutEquipment and bookEquipment.
Lendable(status) == status = "available"

\* Mutation of Returnable: everything but available can be checked in.
Returnable_AllButAvailable(status) == status # "available"

\* The status precondition of checkInEquipment.
Returnable(status) == status = "checked_out" \/ status = "booked"

\* Mutation of CheckOutRow: expected_return_date stored as given, without `|| null`.
CheckOutRow_RawDate(id, input, t) ==
    [id |-> id, equipment_id |-> input.equipment_id, admin_id |-> input.admin_id,
     transaction_type |-> "check_out", user_name |-> input.user_name,
     user_contact |-> OrNull(input.user_contact), notes |-> OrNull(input.notes),
     transaction_date |-> t,
     expected_return_date |-> input.expected_return_date,
     actual_return_date |-> NullDate, created_at |-> t]

\* The row checkOutEquipment inserts.
CheckOutRow(id, input, t) ==
    [id |-> id, equipment_id |-> input.equipment_id, admin_id |-> input.admin_id,
     transaction_type |-> "check_out", user_name |-> input.user_name,
     user_contact |-> OrNull(input.user_contact), notes |-> OrNull(input.notes),
     transaction_date |-> t,
     expected_return_date |-> OrNullDate(input.expected_return_date),
     actual_return_date |-> NullDate, created_at |-> t]

\* The row bookEquipment inserts.
BookingRow(id, input, t) ==
    [id |-> id, equipment_id |-> input.equipment_id, admin_id |-> input.admin_id,
     transaction_type |-> "booking", user_name |-> input.user_name,
     user_contact |-> OrNull(input.user_contact), notes |-> OrNull(input.notes),
     transaction_date |-> t,
     expected_return_date |-> input.expected_return_date,
     actual_return_date |-> NullDate, created_at |-> t]

\* Mutation of CheckInRow: the check_in row is inserted with no actual_return_date.
CheckInRow_Open(id, input, t) ==
    [id |-> id, equipment_id |-> input.equipment_id, admin_id |-> input.admin_id,
     transaction_type |-> "check_in", user_name |-> "System",
     user_contact |-> NULL, notes |-> OrNull(input.notes),
     transaction_date |-> t,
     expected_return_date |-> NullDate,
     actual_return_date |-> NullDate, created_at |-> t]

\* The row checkInEquipment inserts.
CheckInRow(id, input, t) ==
    [id |-> id, equipment_id |-> input.equipment_id, admin_id |-> input.admin_id,
     transaction_type |-> "check_in", user_name |-> "System",
     user_contact |-> NULL, notes |-> OrNull(input.notes),
     transaction_date |-> t,
     expected_return_date |-> NullDate,
     actual_return_date |-> t, created_at |-> t]

\* Mutation of WithStatus: the UPDATE has no WHERE clause.
WithStatus_AllRows(w, e, status) ==
    [w EXCEPT !.equipment = [k \in DOMAIN w.equipment |->
                                [w.equipment[k] EXCEPT !.status = status, !.updated_at = w.now]]]

\* UPDATE equipment SET status, updated_at WHERE id = e (no row: nothing happens).
WithStatus(w, e, status) ==
    IF e \in DOMAIN w.equipment
    THEN [w EXCEPT !.equipment[e].status = status, !.equipment[e].updated_at = w.now]
    ELSE w

\* INSERT INTO equipment_transactions ... RETURNING, as the last statement of `c`.
InsertTransaction(w, c, row) ==
    IF FkOk(w, row)
    THEN One([w EXCEPT !.transactions = InsertRow(w.transactions, row.id, row),
                       !.nextTxId = @ + 1],
             ReturnedRow(c, "transaction", row))
    ELSE One([w EXCEPT !.nextTxId = @ + 1], Thrown(c, ForeignKeyViolation))

\* ------------------------------------------------------------- createEquipment
CreateInsert(w, c) ==
    LET row == NewEquipment(w.nextEquipId, c.input, w.now)
    IN IF SerialFree(w, w.nextEquipId, c.input.serial_number)
       THEN One([w EXCEPT !.equipment = InsertRow(w.equipment, row.id, row),
                          !.nextEquipId = @ + 1],
                ReturnedRow(c, "equipment", row))
       ELSE One([w EXCEPT !.nextEquipId = @ + 1], Thrown(c, UniqueViolation))

\* ------------------------------------------------------------- checkOutEquipment
\* Mutation of CheckOutSelectAdmin: the admin is not looked up.
CheckOutSelectAdmin_Skipped(w, c) == One(w, At(c, "co_equipment"))

CheckOutSelectAdmin(w, c) ==
    IF c.input.admin_id \notin DOMAIN w.admins
    THEN One(w, Thrown(c, AdminNotFound(c.input.admin_id)))
    ELSE One(w, At(c, "co_equipment"))

CheckOutSelectEquipment(w, c) ==
    LET e == c.input.equipment_id
    IN IF e \notin DOMAIN w.equipment
       THEN One(w, Thrown(c, EquipmentNotFound(e)))
       ELSE IF ~Lendable(w.equipment[e].status)
            THEN One(w, Thrown(c, NotAvailable(w.equipment[e].status)))
            ELSE One(w, At(c, "co_update"))

CheckOutUpdateStatus(w, c) ==
    One(WithStatus(w, c.input.equipment_id, "checked_out"), At(c, "co_insert"))

CheckOutInsert(w, c) ==
    InsertTransaction(w, c, CheckOutRow(w.nextTxId, c.input, w.now))

\* ------------------------------------------------------------- bookEquipment
BookSelectAdmin(w, c) ==
    IF c.input.admin_id \notin DOMAIN w.admins
    THEN One(w, Thrown(c, AdminNotFound(c.input.admin_id)))
    ELSE One(w, At(c, "bk_equipment"))

BookSelectEquipment(w, c) ==
    LET e == c.input.equipment_id
    IN IF e \notin DOMAIN w.equipment
       THEN One(w, Thrown(c, EquipmentNotFound(e)))
       ELSE IF ~Lendable(w.equipment[e].status)
            THEN One(w, Thrown(c, NotAvailableForBooking(w.equipment[e].status)))
            ELSE One(w, At(c, "bk_update"))

\* Mutation of BookUpdateStatus: the status written is the one of a checkout.
BookUpdateStatus_CheckedOut(w, c) ==
    One(WithStatus(w, c.input.equipment_id, "checked_out"), At(c, "bk_insert"))

BookUpdateStatus(w, c) ==
    One(WithStatus(w, c.input.equipment_id, "booked"), At(c, "bk_insert"))

BookInsert(w, c) ==
    InsertTransaction(w, c, BookingRow(w.nextTxId, c.input, w.now))

\* ------------------------------------------------------------- checkInEquipment
CheckInSelectEquipment(w, c) ==
    LET e == c.input.equipment_id
    IN IF e \notin DOMAIN w.equipment
       THEN One(w, Thrown(c, CheckInNotFound(e)))
       ELSE IF ~Returnable(w.equipment[e].status)
            THEN One(w, Thrown(c, CannotCheckIn(w.equipment[e].status)))
            ELSE One(w, At(c, "ci_update"))

\* Mutation of CheckInUpdateStatus: the status is left as it is.
CheckInUpdateStatus_Kept(w, c) == One(w, At(c, "ci_find"))

CheckInUpdateStatus(w, c) ==
    One(WithStatus(w, c.input.equipment_id, "available"), At(c, "ci_find"))

\* Mutation of CheckInFindOpen: a check-in with no open row to reconcile is an error.
CheckInFindOpen_Required(w, c) ==
    LET last == LastOpenTx(w.transactions, c.input.equipment_id)
    IN IF last = {}
       THEN One(w, Thrown(c, <<"No open transaction to check in">>))
       ELSE {[w |-> w, c |-> [c EXCEPT !.pc = "ci_close", !.loc = t]] : t \in last}

\* The select of the most recent open row; with none, step 4 is skipped.
CheckInFindOpen(w, c) ==
    LET last == LastOpenTx(w.transactions, c.input.equipment_id)
    IN IF last = {}
       THEN One(w, At(c, "ci_insert"))
       ELSE {[w |-> w, c |-> [c EXCEPT !.pc = "ci_close", !.loc = t]] : t \in last}

\* Mutation of CheckInClose: the open row is left open.
CheckInClose_Skipped(w, c) == One(w, At(c, "ci_insert"))

CheckInClose(w, c) ==
    IF c.loc \in DOMAIN w.transactions
    THEN One([w EXCEPT !.transactions[c.loc].actual_return_date = w.now], At(c, "ci_insert"))
    ELSE One(w, At(c, "ci_insert"))

CheckInInsert(w, c) ==
    InsertTransaction(w, c, CheckInRow(w.nextTxId, c.input, w.now))

\* ------------------------------------------------------------- deleteEquipment
DeleteSelectEquipment(w, c) ==
    IF c.input.id \notin DOMAIN w.equipment
    THEN One(w, Returned(c, "false"))
    ELSE One(w, At(c, "de_active"))

\* Mutation of DeleteSelectActive: the guard reads the status, not the ledger.
DeleteSelectActive_ByStatus(w, c) ==
    IF c.input.id \in DOMAIN w.equipment
       /\ w.equipment[c.input.id].status \in {"checked_out", "booked"}
    THEN One(w, Thrown(c, ActiveTransactions))
    ELSE One(w, At(c, "de_transactions"))

DeleteSelectActive(w, c) ==
    IF OpenTxOf(w.transactions, c.input.id) # {}
    THEN One(w, Thrown(c, ActiveTransactions))
    ELSE One(w, At(c, "de_transactions"))

\* Mutation of DeleteTransactions: the DELETE has no WHERE clause.
DeleteTransactions_All(w, c) ==
    One([w EXCEPT !.transactions = <<>>], At(c, "de_equipment"))

DeleteTransactions(w, c) ==
    One([w EXCEPT !.transactions = DeleteRows(@, TxOf(@, c.input.id))],
        At(c, "de_equipment"))

\* The equipment row is deleted unless a transaction row still references it.
DeleteEquipmentRow(w, c) ==
    IF TxOf(w.transactions, c.input.id) # {}
    THEN One(w, Thrown(c, ForeignKeyViolation))
    ELSE One([w EXCEPT !.equipment = DeleteRows(@, {c.input.id})], Returned(c, "true"))

\* ------------------------------------------------------------- status overrides
\* `w` with item `id` recorded when `status` overwrites it to available with a row
\* still open.
Forcing(w, id, status) ==
    IF id \in DOMAIN w.equipment /\ status = "available"
       /\ OpenTxOf(w.transactions, id) # {}
    THEN [w EXCEPT !.forced = @ \cup {id}]
    ELSE w

\* Mutation of UpdateStatusWrite: the overwrite is refused on an item that is lent.
UpdateStatusWrite_Guarded(w, c) ==
    LET id == c.input.id
        v == WithStatus(Forcing(w, id, c.input.status), id, c.input.status)
    IN IF id \in DOMAIN w.equipment /\ ~Returnable(w.equipment[id].status)
       THEN One(v, ReturnedRow(c, "equipment", v.equipment[id]))
       ELSE One(w, Returned(c, "null"))

UpdateStatusWrite(w, c) ==
    LET id == c.input.id
        v == WithStatus(Forcing(w, id, c.input.status), id, c.input.status)
    IN IF id \in DOMAIN w.equipment
       THEN One(v, ReturnedRow(c, "equipment", v.equipment[id]))
       ELSE One(w, Returned(c, "null"))

\* ------------------------------------------------------------- updateEquipment
\* Mutation of Patched: the column is set whether or not the patch gives it.
Patched_Always(old, new) == new

\* The value of a column after SET: the patch's value when given.
Patched(old, new) == IF new = UNDEF THEN old ELSE new

\* Mutation of PatchedEquipment: serial_number is left out of the SET clause.
PatchedEquipment_SerialKept(old, patch, t) ==
    [id |-> old.id,
     name |-> Patched(old.name, patch.name),
     serial_number |-> old.serial_number,
     description |-> Patched(old.description, patch.description),
     category |-> Patched(old.category, patch.category),
     brand |-> Patched(old.brand, patch.brand),
     model |-> Patched(old.model, patch.model),
     status |-> Patched(old.status, patch.status),
     created_at |-> old.created_at,
     updated_at |-> t]

\* The row `old` after updateEquipment's UPDATE with `patch` at time `t`.
PatchedEquipment(old, patch, t) ==
    [id |-> old.id,
     name |-> Patched(old.name, patch.name),
     serial_number |-> Patched(old.serial_number, patch.serial_number),
     description |-> Patched(old.description, patch.description),
     category |-> Patched(old.category, patch.category),
     brand |-> Patched(old.brand, patch.brand),
     model |-> Patched(old.model, patch.model),
     status |-> Patched(old.status, patch.status),
     created_at |-> old.created_at,
     updated_at |-> t]

\* Mutation of UpdateSelectExisting: the UPDATE is issued even when no field is given.
UpdateSelectExisting_AlwaysWrites(w, c) ==
    IF c.input.id \notin DOMAIN w.equipment
    THEN One(w, Returned(c, "null"))
    ELSE One(w, At(c, "ue_write"))

UpdateSelectExisting(w, c) ==
    IF c.input.id \notin DOMAIN w.equipment
    THEN One(w, Returned(c, "null"))
    ELSE IF c.input.patch = NoPatch
         THEN One(w, ReturnedRow(c, "equipment", w.equipment[c.input.id]))
         ELSE One(w, At(c, "ue_write"))

UpdateWrite(w, c) ==
    LET id == c.input.id
        patch == c.input.patch
    IN IF id \notin DOMAIN w.equipment
       THEN One(w, Returned(c, "undefined"))
       ELSE IF patch.serial_number # UNDEF /\ ~SerialFree(w, id, patch.serial_number)
            THEN One(w, Thrown(c, UniqueViolation))
            ELSE LET row == PatchedEquipment(w.equipment[id], patch, w.now)
                 IN One([Forcing(w, id, patch.status) EXCEPT !.equipment[id] = row],
                        ReturnedRow(c, "equipment", row))

\* ------------------------------------------------------------- createAdmin
\* await Bun.password.hash(input.password): the hash is kept by the invocation.
CreateAdminHash(w, c) ==
    {[w |-> w, c |-> [c EXCEPT !.pc = "ca_insert", !.loc = BunPasswordHash(c.input.password, salt)]] :
        salt \in Salts}

\* The insert, refused when the username or the email is taken.
CreateAdminInsert(w, c) ==
    LET row == NewAdmin(w.nextAdminId, c.input, c.loc, w.now)
    IN IF \E k \in DOMAIN w.admins :
             w.admins[k].username = row.username \/ w.admins[k].email = row.email
       THEN One([w EXCEPT !.nextAdminId = @ + 1], Thrown(c, UniqueViolation))
       ELSE One([w EXCEPT !.admins = InsertRow(w.admins, row.id, row), !.nextAdminId = @ + 1],
                ReturnedRow(c, "admin", row))

\* ------------------------------------------------------------- loginAdmin
\* The select by username: null when no admin has it.
LoginSelectAdmin(w, c) ==
    LET found == {k \in DOMAIN w.admins : w.admins[k].username = c.input.username}
    IN IF found = {}
       THEN One(w, Returned(c, "null"))
       ELSE {[w |-> w, c |-> [c EXCEPT !.pc = "la_compare", !.rows = {w.admins[k]}]] : k \in found}

\* hashedInput !== admin.password_hash: null, else the admin record.
LoginCompare(w, c) ==
    {[w |-> w,
      c |-> IF Sha256Hex(c.input.password) # admin.password_hash
            THEN [c EXCEPT !.pc = "done", !.kind = "null", !.rows = {}]
            ELSE ReturnedRow(c, "admin", admin)] : admin \in c.rows}

\* ------------------------------------------------------------- handlers
\* The statement the invocation `c` awaits, executed on `w`: the possible successors.
Statement(w, c) ==
    CASE c.pc = "cr_insert" -> CreateInsert(w, c)
      [] c.pc = "co_admin" -> CheckOutSelectAdmin(w, c)
      [] c.pc = "co_equipment" -> CheckOutSelectEquipment(w, c)
      [] c.pc = "co_update" -> CheckOutUpdateStatus(w, c)
      [] c.pc = "co_insert" -> CheckOutInsert(w, c)
      [] c.pc = "bk_admin" -> BookSelectAdmin(w, c)
      [] c.pc = "bk_equipment" -> BookSelectEquipment(w, c)
      [] c.pc = "bk_update" -> BookUpdateStatus(w, c)
      [] c.pc = "bk_insert" -> BookInsert(w, c)
      [] c.pc = "ci_equipment" -> CheckInSelectEquipment(w, c)
      [] c.pc = "ci_update" -> CheckInUpdateStatus(w, c)
      [] c.pc = "ci_find" -> CheckInFindOpen(w, c)
      [] c.pc = "ci_close" -> CheckInClose(w, c)
      [] c.pc = "ci_insert" -> CheckInInsert(w, c)
      [] c.pc = "de_equipment_select" -> DeleteSelectEquipment(w, c)
      [] c.pc = "de_active" -> DeleteSelectActive(w, c)
      [] c.pc = "de_transactions" -> DeleteTransactions(w, c)
      [] c.pc = "de_equipment" -> DeleteEquipmentRow(w, c)
      [] c.pc = "us_write" -> UpdateStatusWrite(w, c)
      [] c.pc = "ue_select" -> UpdateSelectExisting(w, c)
      [] c.pc = "ue_write" -> UpdateWrite(w, c)
      [] c.pc = "ca_hash" -> CreateAdminHash(w, c)
      [] c.pc = "ca_insert" -> CreateAdminInsert(w, c)
      [] c.pc = "la_select" -> LoginSelectAdmin(w, c)
      [] c.pc = "la_compare" -> LoginCompare(w, c)

\* While a handler awaits its next statement the clock may advance.
Await(S) ==
    UNION {{[w |-> [s.w EXCEPT !.now = t], c |-> s.c] :
               t \in {s.w.now} \cup {u \in Dates : s.c.pc # "done" /\ u > s.w.now}} :
           s \in S}

\* The handler invocation `c` run alone from `w` to its end: the possible outcomes,
\* each the store it leaves and the finished invocation.
RECURSIVE Run(_, _)
Run(w, c) ==
    IF c.pc = "done"
    THEN One(w, c)
    ELSE UNION {Run(s.w, s.c) : s \in Await(Statement(w, c))}

createEquipment(w, input) == Run(w, Entered("createEquipment", "cr_insert", input))
checkOutEquipment(w, input) == Run(w, Entered("checkOut", "co_admin", input))
bookEquipment(w, input) == Run(w, Entered("book", "bk_admin", input))
checkInEquipment(w, input) == Run(w, Entered("checkIn", "ci_equipment", input))
deleteEquipment(w, id) == Run(w, Entered("delete", "de_equipment_select", [id |-> id]))
updateEquipmentStatus(w, id, status) ==
    Run(w, Entered("updateEquipmentStatus", "us_write", [id |-> id, status |-> status]))
updateEquipment(w, id, patch) ==
    Run(w, Entered("updateEquipment", "ue_select", [id |-> id, patch |-> patch]))
createAdmin(w, input) == Run(w, Entered("createAdmin", "ca_hash", input))
loginAdmin(w, input) == Run(w, Entered("loginAdmin", "la_select", input))

\* ------------------------------------------------------------- getEquipmentWithTransactions
\* The rows `ids` of `txs` in an order ORDER BY transaction_date DESC can return them
\* in: rows of equal transaction_date come in an order the store does not fix.
ByTransactionDateDesc(txs, ids) ==
    {seq \in [1..Cardinality(ids) -> ids] :
        /\ \A i, j \in DOMAIN seq : i # j => seq[i] # seq[j]
        /\ \A i, j \in DOMAIN seq :
              i < j => txs[seq[i]].transaction_date >= txs[seq[j]].transaction_date}

\* The rows of item `e` that the inner join with the admins table keeps.
JoinedTxOf(w, e) == {t \in TxOf(w.transactions, e) : w.transactions[t].admin_id \in DOMAIN w.admins}

\* list.find(tx => tx.transaction_type = type && tx.actual_return_date === null): the
\* user_name of the first such row of `list`, null when there is none.
FindOpenUser(list, type) ==
    LET hits == {i \in DOMAIN list : /\ list[i].transaction_type = type
                                     /\ list[i].actual_return_date = NullDate}
    IN IF hits = {}
       THEN NULL
       ELSE list[CHOOSE i \in hits : \A j \in hits : i <= j].user_name

\* Mutation of CurrentUser: the holder is read off the ledger whatever the status.
CurrentUser_IgnoringStatus(status, list) ==
    IF FindOpenUser(list, "check_out") # NULL
    THEN FindOpenUser(list, "check_out")
    ELSE FindOpenUser(list, "booking")

\* current_user of an item with status `status` and transaction list `list`.
CurrentUser(status, list) ==
    IF Len(list) > 0 /\ status = "checked_out"
    THEN FindOpenUser(list, "check_out")
    ELSE IF Len(list) > 0 /\ status = "booked"
         THEN FindOpenUser(list, "booking")
         ELSE NULL

\* The possible results of getEquipmentWithTransactions(id) on the store `w`.
getEquipmentWithTransactions(w, id) ==
    IF id \notin DOMAIN w.equipment
    THEN {[kind |-> "null"]}
    ELSE {[kind |-> "found",
           equipment |-> w.equipment[id],
           transactions |-> [i \in DOMAIN seq |-> w.transactions[seq[i]]],
           current_user |-> CurrentUser(w.equipment[id].status,
                                        [i \in DOMAIN seq |-> w.transactions[seq[i]]])] :
             seq \in ByTransactionDateDesc(w.transactions, JoinedTxOf(w, id))}

\* ------------------------------------------------------------- one caller
\* An empty store with one admin.  The clock stands at its last instant: the calls of
\* one caller all read the same time.
Init ==
    /\ admins = (1 :> [id |-> 1, username |-> "admin", email |-> "admin@test.com"])
    /\ equipment = <<>>
    /\ transactions = <<>>
    /\ nextEquipId = 1
    /\ nextTxId = 1
    /\ now = MaxTime
    /\ nextAdminId = 2
    /\ forced = {}
    /\ calls = [p \in Procs |-> Idle]

CallCreateEquipment ==
    /\ nextEquipId \in EquipIds
    /\ \E input \in CreateEquipmentInputs :
          \E fin \in createEquipment(World, input) : Become(fin.w)
    /\ UNCHANGED calls

CallCheckOutEquipment ==
    /\ nextTxId <= MaxTx
    /\ \E input \in CheckOutEquipmentInputs :
          \E fin \in checkOutEquipment(World, input) : Become(fin.w)
    /\ UNCHANGED calls

CallBookEquipment ==
    /\ nextTxId <= MaxTx
    /\ \E input \in BookEquipmentInputs :
          \E fin \in bookEquipment(World, input) : Become(fin.w)
    /\ UNCHANGED calls

CallCheckInEquipment ==
    /\ nextTxId <= MaxTx
    /\ \E input \in CheckInEquipmentInputs :
          \E fin \in checkInEquipment(World, input) : Become(fin.w)
    /\ UNCHANGED calls

CallDeleteEquipment ==
    /\ \E id \in EquipIds :
          \E fin \in deleteEquipment(World, id) : Become(fin.w)
    /\ UNCHANGED calls

CallUpdateEquipmentStatus ==
    /\ \E id \in EquipIds, status \in Statuses :
          \E fin \in updateEquipmentStatus(World, id, status) : Become(fin.w)
    /\ UNCHANGED calls

\* The patches that write a column some handler reads (status, serial_number), and the
\* empty one.  name, description, category, brand and model are read by no handler, so
\* the stores the calls build differ in the other columns only.
KeyPatches == {patch \in UpdateEquipmentPatches : patch.name = UNDEF /\ patch.brand = UNDEF}

CallUpdateEquipment ==
    /\ \E id \in EquipIds, patch \in KeyPatches :
          \E fin \in updateEquipment(World, id, patch) : Become(fin.w)
    /\ UNCHANGED calls

\* One caller: every handler call runs to its end before the next one starts.
Next ==
    \/ CallCreateEquipment
    \/ CallCheckOutEquipment
    \/ CallBookEquipment
    \/ CallCheckInEquipment
    \/ CallDeleteEquipment
    \/ CallUpdateEquipmentStatus
    \/ CallUpdateEquipment

Spec == Init /\ [][Next]_vars

\* ------------------------------------------------------------- claims, one caller
\* The equipment and transaction tables of `w` are those of the current state.
StoreUnchanged(w) == w.equipment = equipment /\ w.transactions = transactions

\* The transaction table of `w` is the current one with exactly the row `row` added.
Appended(w, row) ==
    /\ row.id \notin DOMAIN transactions
    /\ DOMAIN w.transactions = DOMAIN transactions \cup {row.id}
    /\ w.transactions[row.id] = row
    /\ \A t \in DOMAIN transactions : w.transactions[t] = transactions[t]

\* C1: every equipment item has at most one transaction whose actual_return_date is
\* null, in every state the handlers reach when called one after the other.
C1_AtMostOneOpen ==
    \A e \in DOMAIN equipment : Cardinality(OpenTxOf(transactions, e)) <= 1

\* The ledger invariant is broken through the status overrides only: an item has at
\* most one transaction whose actual_return_date is null unless updateEquipmentStatus
\* or updateEquipment set its status to available while it had such a transaction.
AtMostOneOpenUnlessForced ==
    \A e \in DOMAIN equipment :
        e \notin forced => Cardinality(OpenTxOf(transactions, e)) <= 1

\* C3: checkOutEquipment with an existing admin on an existing item whose status is
\* available sets the status to checked_out, appends exactly one check_out row with
\* the caller's user_name, a null actual_return_date and the given
\* expected_return_date (null when omitted), and returns that row.
C3_CheckOutSucceeds ==
    \A input \in CheckOutEquipmentInputs :
        (/\ input.admin_id \in DOMAIN admins
         /\ input.equipment_id \in DOMAIN equipment
         /\ equipment[input.equipment_id].status = "available")
        => \A fin \in checkOutEquipment(World, input) :
              /\ fin.c.kind = "transaction"
              /\ fin.w.equipment[input.equipment_id].status = "checked_out"
              /\ \E row \in fin.c.rows :
                    /\ fin.c.rows = {row}
                    /\ Appended(fin.w, row)
                    /\ row.equipment_id = input.equipment_id
                    /\ row.transaction_type = "check_out"
                    /\ row.user_name = input.user_name
                    /\ row.actual_return_date = NullDate
                    /\ row.expected_return_date =
                          IF input.expected_return_date = UndefDate
                          THEN NullDate
                          ELSE input.expected_return_date

\* A checked-out item whose open check_out row has no expected_return_date, beside an
\* available item that can be checked out.
C3_Witness ==
    /\ \E t \in DOMAIN transactions :
          /\ transactions[t].transaction_type = "check_out"
          /\ transactions[t].actual_return_date = NullDate
          /\ transactions[t].expected_return_date = NullDate
          /\ equipment[transactions[t].equipment_id].status = "checked_out"
    /\ \E e \in DOMAIN equipment : equipment[e].status = "available"

\* C4: bookEquipment succeeds only on an item whose status is available; it then sets
\* the status to booked and appends exactly one booking row with a null
\* actual_return_date and the given, non-null expected_return_date; every booking row
\* of the ledger has a non-null expected_return_date.
C4_BookOnlyAvailable ==
    /\ \A input \in BookEquipmentInputs :
          \A fin \in bookEquipment(World, input) :
             fin.c.kind # "error"
             => /\ input.equipment_id \in DOMAIN equipment
                /\ equipment[input.equipment_id].status = "available"
                /\ fin.c.kind = "transaction"
                /\ fin.w.equipment[input.equipment_id].status = "booked"
                /\ \E row \in fin.c.rows :
                      /\ fin.c.rows = {row}
                      /\ Appended(fin.w, row)
                      /\ row.equipment_id = input.equipment_id
                      /\ row.transaction_type = "booking"
                      /\ row.actual_return_date = NullDate
                      /\ row.expected_return_date = input.expected_return_date
                      /\ row.expected_return_date # NullDate
    /\ \A t \in DOMAIN transactions :
          transactions[t].transaction_type = "booking"
          => transactions[t].expected_return_date \notin {NullDate, UndefDate}

\* A booked item with its open booking row, beside an item in maintenance.
C4_Witness ==
    /\ \E t \in DOMAIN transactions :
          /\ transactions[t].transaction_type = "booking"
          /\ transactions[t].actual_return_date = NullDate
          /\ equipment[transactions[t].equipment_id].status = "booked"
    /\ \E e \in DOMAIN equipment : equipment[e].status = "maintenance"

\* The call ended in `fin` with an error and changed no row.
Rejected(fin) == fin.c.kind = "error" /\ StoreUnchanged(fin.w)

\* C5: on an item whose status s is checked_out, booked or maintenance,
\* checkOutEquipment and bookEquipment fail with an error whose message contains s and
\* leave the equipment and transaction tables unchanged.
C5_LendRejectedNamingStatus ==
    \A e \in DOMAIN equipment :
        equipment[e].status \in {"checked_out", "booked", "maintenance"}
        => /\ \A input \in {i \in CheckOutEquipmentInputs : i.equipment_id = e} :
                 \A fin \in checkOutEquipment(World, input) :
                    Rejected(fin) /\ Contains(fin.c.err, equipment[e].status)
           /\ \A input \in {i \in BookEquipmentInputs : i.equipment_id = e} :
                 \A fin \in bookEquipment(World, input) :
                    Rejected(fin) /\ Contains(fin.c.err, equipment[e].status)

\* C5 amended: on an item whose status s is checked_out, booked or maintenance,
\* checkOutEquipment and bookEquipment fail and leave the equipment and transaction
\* tables unchanged; when the call's admin_id is that of an existing admin the error
\* message contains s.
C5_LendRejected ==
    \A e \in DOMAIN equipment :
        equipment[e].status \in {"checked_out", "booked", "maintenance"}
        => /\ \A input \in {i \in CheckOutEquipmentInputs : i.equipment_id = e} :
                 \A fin \in checkOutEquipment(World, input) :
                    /\ Rejected(fin)
                    /\ input.admin_id \in DOMAIN admins
                       => Contains(fin.c.err, equipment[e].status)
           /\ \A input \in {i \in BookEquipmentInputs : i.equipment_id = e} :
                 \A fin \in bookEquipment(World, input) :
                    /\ Rejected(fin)
                    /\ input.admin_id \in DOMAIN admins
                       => Contains(fin.c.err, equipment[e].status)

\* One item is booked and the other in maintenance, and a checkout of the booked one
\* by an existing admin is rejected.
C5_Witness ==
    /\ \E e \in DOMAIN equipment : equipment[e].status = "maintenance"
    /\ \E input \in CheckOutEquipmentInputs :
          /\ input.admin_id \in DOMAIN admins
          /\ input.equipment_id \in DOMAIN equipment
          /\ equipment[input.equipment_id].status = "booked"
          /\ \E fin \in checkOutEquipment(World, input) : fin.c.kind = "error"

\* The checkInEquipment call with `input` ended in `fin` having set the status to
\* available, stamped the actual_return_date of the item's most recent open row (when
\* it has one) and of no other row, appended a check_in row of 'System' with null
\* user_contact, null expected_return_date and a non-null actual_return_date, and
\* returned the new row.
CheckedIn(input, fin) ==
    /\ fin.c.kind = "transaction"
    /\ fin.w.equipment[input.equipment_id].status = "available"
    /\ \E row \in fin.c.rows :
          /\ fin.c.rows = {row}
          /\ row.id \notin DOMAIN transactions
          /\ DOMAIN fin.w.transactions = DOMAIN transactions \cup {row.id}
          /\ fin.w.transactions[row.id] = row
          /\ row.equipment_id = input.equipment_id
          /\ row.transaction_type = "check_in"
          /\ row.user_name = "System"
          /\ row.user_contact = NULL
          /\ row.expected_return_date = NullDate
          /\ row.actual_return_date # NullDate
    /\ LET last == LastOpenTx(transactions, input.equipment_id)
       IN \E closed \in (IF last = {} THEN {{}} ELSE {{t} : t \in last}) :
             \A t \in DOMAIN transactions :
                IF t \in closed
                THEN /\ fin.w.transactions[t].actual_return_date # NullDate
                     /\ fin.w.transactions[t] =
                           [transactions[t] EXCEPT !.actual_return_date =
                               fin.w.transactions[t].actual_return_date]
                ELSE fin.w.transactions[t] = transactions[t]

\* C6: checkInEquipment on an item whose status is checked_out or booked succeeds,
\* sets the status to available, stamps the actual_return_date of the item's prior
\* open row, appends a check_in row with user_name 'System', null user_contact, null
\* expected_return_date and a non-null actual_return_date, and returns the new row.
C6_CheckInAlwaysSucceeds ==
    \A input \in CheckInEquipmentInputs :
        (/\ input.equipment_id \in DOMAIN equipment
         /\ equipment[input.equipment_id].status \in {"checked_out", "booked"})
        => \A fin \in checkInEquipment(World, input) : CheckedIn(input, fin)

\* C6 amended: checkInEquipment called with the admin_id of an existing admin on an
\* item whose status is checked_out or booked succeeds, sets the status to available,
\* stamps the actual_return_date of the item's most recent open row when it has one,
\* appends a check_in row with user_name 'System', null user_contact, null
\* expected_return_date and a non-null actual_return_date, and returns the new row,
\* not the reconciled one.
C6_CheckInSucceeds ==
    \A input \in CheckInEquipmentInputs :
        (/\ input.admin_id \in DOMAIN admins
         /\ input.equipment_id \in DOMAIN equipment
         /\ equipment[input.equipment_id].status \in {"checked_out", "booked"})
        => \A fin \in checkInEquipment(World, input) : CheckedIn(input, fin)

\* An available item whose ledger is a closed check_out row followed by the check_in
\* row of 'System'.
C6_Witness ==
    \E e \in DOMAIN equipment, t, u \in DOMAIN transactions :
        /\ equipment[e].status = "available"
        /\ transactions[t].equipment_id = e
        /\ transactions[u].equipment_id = e
        /\ transactions[t].transaction_type = "check_out"
        /\ transactions[t].actual_return_date # NullDate
        /\ transactions[u].transaction_type = "check_in"
        /\ transactions[u].user_name = "System"

\* C7: checkInEquipment on an item whose status is available or maintenance fails with
\* a message that contains that status and not the other one, and leaves the equipment
\* and transaction tables unchanged.
C7_CheckInRejected ==
    \A input \in CheckInEquipmentInputs :
        (/\ input.equipment_id \in DOMAIN equipment
         /\ equipment[input.equipment_id].status \in {"available", "maintenance"})
        => \A fin \in checkInEquipment(World, input) :
              /\ fin.c.kind = "error"
              /\ fin.c.rows = {}
              /\ StoreUnchanged(fin.w)
              /\ \A s \in {"available", "maintenance"} :
                    Contains(fin.c.err, s) <=> s = equipment[input.equipment_id].status

\* One item available and one in maintenance, each with a row in the ledger.
C7_Witness ==
    \E e, f \in DOMAIN equipment :
        /\ equipment[e].status = "available"
        /\ equipment[f].status = "maintenance"
        /\ TxOf(transactions, e) # {}
        /\ TxOf(transactions, f) # {}

\* C8: whenever checkOutEquipment, bookEquipment, checkInEquipment or deleteEquipment
\* ends with an error, the equipment and transaction tables are as they were before
\* the call.
C8_NoPartialFailure ==
    /\ \A input \in CheckOutEquipmentInputs :
          \A fin \in checkOutEquipment(World, input) :
             fin.c.kind = "error" => StoreUnchanged(fin.w)
    /\ \A input \in BookEquipmentInputs :
          \A fin \in bookEquipment(World, input) :
             fin.c.kind = "error" => StoreUnchanged(fin.w)
    /\ \A input \in CheckInEquipmentInputs :
          \A fin \in checkInEquipment(World, input) :
             fin.c.kind = "error" => StoreUnchanged(fin.w)
    /\ \A id \in EquipIds :
          \A fin \in deleteEquipment(World, id) :
             fin.c.kind = "error" => StoreUnchanged(fin.w)

\* C9: deleteEquipment of an existing item fails with the active-transactions error
\* and removes nothing when a row of the item has a null actual_return_date, whatever
\* the item's status; otherwise it deletes the item, whatever its status.
C9_DeleteGuard ==
    \A e \in DOMAIN equipment :
        \A fin \in deleteEquipment(World, e) :
            IF \E t \in DOMAIN transactions :
                  /\ transactions[t].equipment_id = e
                  /\ transactions[t].actual_return_date = NullDate
            THEN /\ fin.c.kind = "error"
                 /\ fin.c.err = ActiveTransactions
                 /\ StoreUnchanged(fin.w)
            ELSE /\ fin.c.kind = "true"
                 /\ e \notin DOMAIN fin.w.equipment

\* An item forced to available with a row still open, beside a checked_out item with
\* no open row.
C9_Witness ==
    \E e, f \in DOMAIN equipment :
        /\ equipment[e].status = "available"
        /\ OpenTxOf(transactions, e) # {}
        /\ equipment[f].status = "checked_out"
        /\ OpenTxOf(transactions, f) = {}

\* C10: a deleteEquipment that returns true removes exactly the item's row and the
\* rows of the ledger that reference it, and changes no other row and no admin; on an
\* id that does not exist it returns false and changes nothing; no ledger row
\* references an item that is not in the equipment table.
C10_DeleteFrame ==
    /\ \A id \in EquipIds :
          \A fin \in deleteEquipment(World, id) :
             /\ fin.c.kind = "true"
                => /\ id \in DOMAIN equipment
                   /\ DOMAIN fin.w.equipment = DOMAIN equipment \ {id}
                   /\ \A k \in DOMAIN fin.w.equipment : fin.w.equipment[k] = equipment[k]
                   /\ DOMAIN fin.w.transactions =
                         {t \in DOMAIN transactions : transactions[t].equipment_id # id}
                   /\ \A t \in DOMAIN fin.w.transactions :
                         fin.w.transactions[t] = transactions[t]
                   /\ fin.w.admins = admins
             /\ id \notin DOMAIN equipment
                => /\ fin.c.kind = "false"
                   /\ StoreUnchanged(fin.w)
                   /\ fin.w.admins = admins
    /\ \A t \in DOMAIN transactions : transactions[t].equipment_id \in DOMAIN equipment

\* Two items with one row each: deleting the first succeeds and the row of the second
\* is the whole ledger left; the other id of an earlier deletion would not exist.
C10_Witness ==
    \E id \in DOMAIN equipment, other \in DOMAIN equipment :
        /\ other # id
        /\ TxOf(transactions, id) # {}
        /\ TxOf(transactions, other) # {}
        /\ \E fin \in deleteEquipment(World, id) :
              /\ fin.c.kind = "true"
              /\ DOMAIN fin.w.transactions = TxOf(transactions, other)

\* The rows of item `e` written by checkOutEquipment and bookEquipment.
LendRows(txs, e) ==
    {t \in TxOf(txs, e) : txs[t].transaction_type \in {"check_out", "booking"}}

\* A checkInEquipment of item `e` completed after row `t` was inserted: ids are serial,
\* so its check_in row has a greater id.
CheckedInAfter(txs, e, t) ==
    \E u \in TxOf(txs, e) : txs[u].transaction_type = "check_in" /\ u > t

\* C11: deleteEquipment of an item fails with the active-transactions error at every
\* point between a checkOutEquipment or bookEquipment of the item and the completed
\* checkInEquipment that follows it, returns true and removes the item once every such
\* call was followed by a completed checkInEquipment, and returns true on an item with
\* no transaction.
C11_DeleteOrdered ==
    \A e \in DOMAIN equipment :
        \A fin \in deleteEquipment(World, e) :
            /\ (\E t \in LendRows(transactions, e) : ~CheckedInAfter(transactions, e, t))
               => /\ fin.c.kind = "error"
                  /\ fin.c.err = ActiveTransactions
                  /\ StoreUnchanged(fin.w)
            /\ (\/ TxOf(transactions, e) = {}
                \/ /\ LendRows(transactions, e) # {}
                   /\ \A t \in LendRows(transactions, e) :
                         CheckedInAfter(transactions, e, t))
               => /\ fin.c.kind = "true"
                  /\ e \notin DOMAIN fin.w.equipment

\* The open rows of item `e` that its status designates: check_out rows when it is
\* checked_out, booking rows when it is booked.
HeldBy(e) ==
    {t \in OpenTxOf(transactions, e) :
        \/ equipment[e].status = "checked_out" /\ transactions[t].transaction_type = "check_out"
        \/ equipment[e].status = "booked" /\ transactions[t].transaction_type = "booking"}

\* C12: current_user of getEquipmentWithTransactions(e) is non-null exactly when the
\* status is checked_out and a check_out row of e is open, or the status is booked and
\* a booking row of e is open, and is then the user_name of such a row; with status
\* available or maintenance it is null whatever the ledger holds.
C12_CurrentUser ==
    \A e \in DOMAIN equipment :
        \A r \in getEquipmentWithTransactions(World, e) :
            /\ r.kind = "found"
            /\ r.current_user # NULL <=> HeldBy(e) # {}
            /\ HeldBy(e) # {}
               => \E t \in HeldBy(e) : r.current_user = transactions[t].user_name
            /\ equipment[e].status \in {"available", "maintenance"} => r.current_user = NULL

\* One item is checked_out with its borrower reported, the other has a row still open
\* under a status forced to available or maintenance and reports nobody.
C12_Witness ==
    \E e, f \in DOMAIN equipment :
        /\ equipment[e].status = "checked_out"
        /\ \E r \in getEquipmentWithTransactions(World, e) : r.current_user = "Alice"
        /\ equipment[f].status \in {"available", "maintenance"}
        /\ OpenTxOf(transactions, f) # {}
        /\ \E r \in getEquipmentWithTransactions(World, f) : r.current_user = NULL

\* C13: from an item with status available and no transaction, checkOutEquipment for
\* user U makes getEquipmentWithTransactions report status checked_out and
\* current_user U; the checkInEquipment that follows leaves the item available with
\* exactly two transactions, the check_out row with a non-null actual_return_date and a
\* check_in row of 'System', and current_user null.  Both calls name an existing admin.
C13_CheckOutThenCheckIn ==
    \A co \in CheckOutEquipmentInputs, ci \in CheckInEquipmentInputs :
        (/\ co.equipment_id \in DOMAIN equipment
         /\ ci.equipment_id = co.equipment_id
         /\ co.admin_id \in DOMAIN admins
         /\ ci.admin_id \in DOMAIN admins
         /\ equipment[co.equipment_id].status = "available"
         /\ TxOf(transactions, co.equipment_id) = {})
        => \A out \in checkOutEquipment(World, co) :
              /\ \A r \in getEquipmentWithTransactions(out.w, co.equipment_id) :
                    /\ r.equipment.status = "checked_out"
                    /\ r.current_user = co.user_name
              /\ \A back \in checkInEquipment(out.w, ci) :
                    /\ back.w.equipment[co.equipment_id].status = "available"
                    /\ \A r \in getEquipmentWithTransactions(back.w, co.equipment_id) :
                          /\ r.equipment.status = "available"
                          /\ r.current_user = NULL
                          /\ Len(r.transactions) = 2
                          /\ \E i, j \in DOMAIN r.transactions :
                                /\ r.transactions[i].transaction_type = "check_out"
                                /\ r.transactions[i].user_name = co.user_name
                                /\ r.transactions[i].actual_return_date # NullDate
                                /\ r.transactions[j].transaction_type = "check_in"
                                /\ r.transactions[j].user_name = "System"

\* The scenario has run: an available item whose two transactions are Bob's closed
\* check_out row and the check_in row of 'System', reported with no current user.
C13_Witness ==
    \E e \in DOMAIN equipment :
        /\ equipment[e].status = "available"
        /\ \E r \in getEquipmentWithTransactions(World, e) :
              /\ r.current_user = NULL
              /\ Len(r.transactions) = 2
              /\ \E i, j \in DOMAIN r.transactions :
                    /\ r.transactions[i].transaction_type = "check_out"
                    /\ r.transactions[i].user_name = "Bob"
                    /\ r.transactions[i].actual_return_date # NullDate
                    /\ r.transactions[j].transaction_type = "check_in"

\* C14: updateEquipmentStatus(id, s) on an existing item sets its status to s whatever
\* the current status, changes no other field of the item but updated_at, no other
\* item and no transaction, and returns the updated item; on an id that does not exist
\* it returns null and changes nothing.
C14_StatusOverride ==
    \A id \in EquipIds, s \in Statuses :
        \A fin \in updateEquipmentStatus(World, id, s) :
            IF id \in DOMAIN equipment
            THEN /\ fin.c.kind = "equipment"
                 /\ fin.c.rows = {fin.w.equipment[id]}
                 /\ fin.w.equipment[id].status = s
                 /\ fin.w.equipment[id] =
                       [equipment[id] EXCEPT !.status = s,
                                             !.updated_at = fin.w.equipment[id].updated_at]
                 /\ DOMAIN fin.w.equipment = DOMAIN equipment
                 /\ \A k \in DOMAIN equipment \ {id} : fin.w.equipment[k] = equipment[k]
                 /\ fin.w.transactions = transactions
            ELSE /\ fin.c.kind = "null"
                 /\ StoreUnchanged(fin.w)

\* An item in maintenance with a row still open (an override has acted on a lent item)
\* that is overridden to booked, beside an id that does not exist.
C14_Witness ==
    /\ \E e \in DOMAIN equipment :
          /\ equipment[e].status = "maintenance"
          /\ OpenTxOf(transactions, e) # {}
          /\ \E fin \in updateEquipmentStatus(World, e, "booked") :
                fin.w.equipment[e].status = "booked"
    /\ \E id \in EquipIds : id \notin DOMAIN equipment

\* C15: checkOutEquipment and bookEquipment fail with a not-found error naming the
\* admin when admin_id references no admin, whatever the equipment_id and the item's
\* status, and with a not-found error naming the equipment when the admin exists and
\* equipment_id references no item; in both cases no row of the store changes.
C15_LendNotFound ==
    /\ \A input \in CheckOutEquipmentInputs :
          \A fin \in checkOutEquipment(World, input) :
             /\ input.admin_id \notin DOMAIN admins
                => /\ Rejected(fin)
                   /\ Contains(fin.c.err, "Admin with id ")
                   /\ Contains(fin.c.err, ToString(input.admin_id))
             /\ (input.admin_id \in DOMAIN admins /\ input.equipment_id \notin DOMAIN equipment)
                => /\ Rejected(fin)
                   /\ Contains(fin.c.err, "Equipment with id ")
                   /\ Contains(fin.c.err, ToString(input.equipment_id))
    /\ \A input \in BookEquipmentInputs :
          \A fin \in bookEquipment(World, input) :
             /\ input.admin_id \notin DOMAIN admins
                => /\ Rejected(fin)
                   /\ Contains(fin.c.err, "Admin with id ")
                   /\ Contains(fin.c.err, ToString(input.admin_id))
             /\ (input.admin_id \in DOMAIN admins /\ input.equipment_id \notin DOMAIN equipment)
                => /\ Rejected(fin)
                   /\ Contains(fin.c.err, "Equipment with id ")
                   /\ Contains(fin.c.err, ToString(input.equipment_id))

\* An admin that does not exist checks out and books an item in maintenance, and an
\* existing admin checks out an item that does not exist.
C15_Witness ==
    /\ \E input \in CheckOutEquipmentInputs :
          /\ input.admin_id \notin DOMAIN admins
          /\ input.equipment_id \in DOMAIN equipment
          /\ equipment[input.equipment_id].status = "maintenance"
          /\ \E fin \in checkOutEquipment(World, input) : fin.c.kind = "error"
    /\ \E input \in BookEquipmentInputs :
          /\ input.admin_id \notin DOMAIN admins
          /\ input.equipment_id \in DOMAIN equipment
          /\ equipment[input.equipment_id].status = "maintenance"
          /\ \E fin \in bookEquipment(World, input) : fin.c.kind = "error"
    /\ \E input \in CheckOutEquipmentInputs :
          /\ input.admin_id \in DOMAIN admins
          /\ input.equipment_id \notin DOMAIN equipment
          /\ \E fin \in checkOutEquipment(World, input) : fin.c.kind = "error"

\* The items of the current state that are still in `w` have the status they had.
SameStatus(w) ==
    \A e \in DOMAIN equipment \cap DOMAIN w.equipment :
        w.equipment[e].status = equipment[e].status

\* The items of the current state that are still in `w` have the serial_number they had.
SameSerial(w) ==
    \A e \in DOMAIN equipment \cap DOMAIN w.equipment :
        w.equipment[e].serial_number = equipment[e].serial_number

\* createEquipment and deleteEquipment leave the status and the serial_number of the
\* items that remain as they were.
CreateDeleteKeep ==
    /\ \A input \in CreateEquipmentInputs :
          \A fin \in createEquipment(World, input) : SameStatus(fin.w) /\ SameSerial(fin.w)
    /\ \A id \in EquipIds :
          \A fin \in deleteEquipment(World, id) : SameStatus(fin.w) /\ SameSerial(fin.w)

\* C16: the status of an existing item is changed by checkOutEquipment,
\* bookEquipment, checkInEquipment and updateEquipmentStatus only: no call of
\* updateEquipment (nor of createEquipment or deleteEquipment) changes it.
C16_StatusOnlyByLifecycle ==
    /\ CreateDeleteKeep
    /\ \A id \in EquipIds, patch \in UpdateEquipmentPatches :
          \A fin \in updateEquipment(World, id, patch) : SameStatus(fin.w)

\* C16 amended: besides checkOutEquipment, bookEquipment, checkInEquipment and
\* updateEquipmentStatus, the status of an existing item is changed by updateEquipment
\* when its input carries a status, which it then writes with no legality check;
\* updateEquipment without a status (and createEquipment, deleteEquipment) never
\* changes a status.
C16_StatusByLifecycleOrPatch ==
    /\ CreateDeleteKeep
    /\ \A id \in EquipIds, patch \in UpdateEquipmentPatches :
          \A fin \in updateEquipment(World, id, patch) :
             /\ DOMAIN fin.w.equipment = DOMAIN equipment
             /\ \A e \in DOMAIN equipment :
                   fin.w.equipment[e].status =
                      IF e = id /\ patch.status # UNDEF /\ fin.c.kind = "equipment"
                      THEN patch.status
                      ELSE equipment[e].status

\* On a checked_out item with a row open, updateEquipment with status maintenance
\* writes that status and updateEquipment with a name only leaves the status.
C16_Witness ==
    \E e \in DOMAIN equipment :
        /\ equipment[e].status = "checked_out"
        /\ OpenTxOf(transactions, e) # {}
        /\ \E fin \in updateEquipment(World, e, [NoPatch EXCEPT !.status = "maintenance"]) :
              fin.w.equipment[e].status = "maintenance"
        /\ \E fin \in updateEquipment(World, e, [NoPatch EXCEPT !.name = "Mixer v2", !.brand = NULL]) :
              /\ fin.w.equipment[e].name = "Mixer v2"
              /\ fin.w.equipment[e].status = "checked_out"

\* checkOutEquipment, bookEquipment, checkInEquipment and updateEquipmentStatus leave
\* the serial_number of every item as it was.
LifecycleKeepsSerial ==
    /\ \A input \in CheckOutEquipmentInputs :
          \A fin \in checkOutEquipment(World, input) : SameSerial(fin.w)
    /\ \A input \in BookEquipmentInputs :
          \A fin \in bookEquipment(World, input) : SameSerial(fin.w)
    /\ \A input \in CheckInEquipmentInputs :
          \A fin \in checkInEquipment(World, input) : SameSerial(fin.w)
    /\ \A id \in EquipIds, status \in Statuses :
          \A fin \in updateEquipmentStatus(World, id, status) : SameSerial(fin.w)

\* C17: once an item is created no call of updateEquipment, updateEquipmentStatus,
\* checkOutEquipment, bookEquipment or checkInEquipment changes its serial_number.
C17_SerialImmutable ==
    /\ LifecycleKeepsSerial
    /\ \A id \in EquipIds, patch \in UpdateEquipmentPatches :
          \A fin \in updateEquipment(World, id, patch) : SameSerial(fin.w)

\* C17 amended: the serial_number of an item is changed only by an updateEquipment
\* whose input carries a serial_number, which succeeds and writes it when no other
\* item has that serial_number; updateEquipment without a serial_number,
\* updateEquipmentStatus, checkOutEquipment, bookEquipment and checkInEquipment never
\* change it.
C17_SerialChangedByPatchOnly ==
    /\ LifecycleKeepsSerial
    /\ \A id \in EquipIds, patch \in UpdateEquipmentPatches :
          \A fin \in updateEquipment(World, id, patch) :
             /\ DOMAIN fin.w.equipment = DOMAIN equipment
             /\ (id \in DOMAIN equipment /\ patch.serial_number # UNDEF)
                => (fin.c.kind = "equipment"
                      <=> \A k \in DOMAIN equipment \ {id} :
                             equipment[k].serial_number # patch.serial_number)
             /\ \A e \in DOMAIN equipment :
                   fin.w.equipment[e].serial_number =
                      IF e = id /\ patch.serial_number # UNDEF /\ fin.c.kind = "equipment"
                      THEN patch.serial_number
                      ELSE equipment[e].serial_number

\* An item created with serial SN1 that updateEquipment renames to SN2.
C17_Witness ==
    \E e \in DOMAIN equipment :
        /\ equipment[e].serial_number = "SN1"
        /\ \E fin \in updateEquipment(World, e, [NoPatch EXCEPT !.serial_number = "SN2"]) :
              /\ fin.c.kind = "equipment"
              /\ fin.w.equipment[e].serial_number = "SN2"

\* C18: no two equipment rows share a serial_number; createEquipment with a
\* serial_number in use and updateEquipment setting the serial_number of another item
\* fail with the store's uniqueness error and leave the equipment table unchanged.
C18_SerialUnique ==
    /\ \A e, f \in DOMAIN equipment :
          e # f => equipment[e].serial_number # equipment[f].serial_number
    /\ \A input \in CreateEquipmentInputs :
          (\E k \in DOMAIN equipment : equipment[k].serial_number = input.serial_number)
          => \A fin \in createEquipment(World, input) :
                /\ fin.c.kind = "error"
                /\ fin.c.err = <<"duplicate key value violates unique constraint">>
                /\ fin.w.equipment = equipment
    /\ \A id \in DOMAIN equipment, patch \in UpdateEquipmentPatches :
          (\E k \in DOMAIN equipment \ {id} : equipment[k].serial_number = patch.serial_number)
          => \A fin \in updateEquipment(World, id, patch) :
                /\ fin.c.kind = "error"
                /\ fin.c.err = <<"duplicate key value violates unique constraint">>
                /\ fin.w.equipment = equipment

\* Two items with serials SN1 and SN2: creating a third SN1 and renaming the first to
\* SN2 are both refused.
C18_Witness ==
    \E e, f \in DOMAIN equipment :
        /\ equipment[e].serial_number = "SN1"
        /\ equipment[f].serial_number = "SN2"
        /\ \E input \in CreateEquipmentInputs :
              /\ input.serial_number = "SN1"
              /\ \E fin \in createEquipment(World, input) : fin.c.kind = "error"
        /\ \E fin \in updateEquipment(World, e, [NoPatch EXCEPT !.serial_number = "SN2"]) :
              fin.c.kind = "error"

\* C22: after a checkInEquipment that succeeds, the item has no transaction with a null
\* actual_return_date, from every state the handlers reach, status overrides included.
C22_NoOpenAfterCheckIn ==
    \A input \in CheckInEquipmentInputs :
        \A fin \in checkInEquipment(World, input) :
            fin.c.kind = "transaction"
            => OpenTxOf(fin.w.transactions, input.equipment_id) = {}

\* The checkInEquipment call with `input` ended in `fin` having set the status to
\* available, changed no row of the ledger and appended its check_in row.
CheckedInUnreconciled(input, fin) ==
    /\ fin.c.kind = "transaction"
    /\ fin.w.equipment[input.equipment_id].status = "available"
    /\ \E row \in fin.c.rows :
          /\ fin.c.rows = {row}
          /\ Appended(fin.w, row)
          /\ row.equipment_id = input.equipment_id
          /\ row.transaction_type = "check_in"

\* C23: checkInEquipment on an item whose status is checked_out or booked and which has
\* no transaction with a null actual_return_date does not fail: it sets the status to
\* available, changes no existing transaction and appends the check_in row.
C23_CheckInWithoutOpenRowNeverFails ==
    \A input \in CheckInEquipmentInputs :
        (/\ input.equipment_id \in DOMAIN equipment
         /\ equipment[input.equipment_id].status \in {"checked_out", "booked"}
         /\ OpenTxOf(transactions, input.equipment_id) = {})
        => \A fin \in checkInEquipment(World, input) : CheckedInUnreconciled(input, fin)

\* C23 amended: checkInEquipment called with the admin_id of an existing admin on an
\* item whose status is checked_out or booked and which has no transaction with a null
\* actual_return_date does not fail: it sets the status to available, changes no
\* existing transaction and appends the check_in row.
C23_CheckInWithoutOpenRow ==
    \A input \in CheckInEquipmentInputs :
        (/\ input.admin_id \in DOMAIN admins
         /\ input.equipment_id \in DOMAIN equipment
         /\ equipment[input.equipment_id].status \in {"checked_out", "booked"}
         /\ OpenTxOf(transactions, input.equipment_id) = {})
        => \A fin \in checkInEquipment(World, input) : CheckedInUnreconciled(input, fin)

\* An item created booked or checked_out was checked in with nothing to reconcile: it is
\* available and its whole ledger is the check_in row; another item with such a status
\* and no open row can be checked in the same way.
C23_Witness ==
    /\ \E e \in DOMAIN equipment :
          /\ equipment[e].status = "available"
          /\ TxOf(transactions, e) # {}
          /\ \A t \in TxOf(transactions, e) : transactions[t].transaction_type = "check_in"
    /\ \E input \in CheckInEquipmentInputs :
          /\ input.admin_id \in DOMAIN admins
          /\ input.equipment_id \in DOMAIN equipment
          /\ equipment[input.equipment_id].status \in {"checked_out", "booked"}
          /\ OpenTxOf(transactions, input.equipment_id) = {}
          /\ \E fin \in checkInEquipment(World, input) : fin.c.kind = "transaction"

\* In `w` the equipment table is the current one but for the status and updated_at of
\* item `e`, and the admins table is the current one.
OnlyStatusOf(w, e) ==
    /\ w.admins = admins
    /\ DOMAIN w.equipment = DOMAIN equipment
    /\ \A k \in DOMAIN equipment :
          IF k = e
          THEN w.equipment[k] = [equipment[k] EXCEPT !.status = w.equipment[k].status,
                                                     !.updated_at = w.equipment[k].updated_at]
          ELSE w.equipment[k] = equipment[k]

\* C25: checkOutEquipment, bookEquipment and checkInEquipment change, of the equipment
\* table, the status and updated_at of the item they are called on and nothing else:
\* its id, serial_number, name, category, description, brand, model and created_at, the
\* other equipment rows and the admin rows are as they were.
C25_LifecycleFrame ==
    /\ \A input \in CheckOutEquipmentInputs :
          \A fin \in checkOutEquipment(World, input) : OnlyStatusOf(fin.w, input.equipment_id)
    /\ \A input \in BookEquipmentInputs :
          \A fin \in bookEquipment(World, input) : OnlyStatusOf(fin.w, input.equipment_id)
    /\ \A input \in CheckInEquipmentInputs :
          \A fin \in checkInEquipment(World, input) : OnlyStatusOf(fin.w, input.equipment_id)

\* Two items with different serial numbers: one was checked out and checked in again,
\* the other is in maintenance and a booking of the first leaves it so.
C25_Witness ==
    \E e, f \in DOMAIN equipment :
        /\ equipment[e].serial_number # equipment[f].serial_number
        /\ equipment[e].status = "available"
        /\ equipment[f].status = "maintenance"
        /\ \E t, u \in TxOf(transactions, e) :
              /\ transactions[t].transaction_type = "check_out"
              /\ transactions[u].transaction_type = "check_in"
        /\ \E input \in BookEquipmentInputs :
              /\ input.equipment_id = e
              /\ \E fin \in bookEquipment(World, input) :
                    /\ fin.w.equipment[e].status = "booked"
                    /\ fin.w.equipment[f] = equipment[f]

\* C28: every check_in row has a non-null actual_return_date, so the rows with a null
\* actual_return_date, which the deletion guard and the reconciliation select without
\* looking at the type, are exactly the open rows: those of type check_out or booking
\* with a null actual_return_date.
C28_NullMeansOpen ==
    /\ \A t \in DOMAIN transactions :
          transactions[t].transaction_type = "check_in"
          => transactions[t].actual_return_date # NullDate
    /\ \A e \in EquipIds :
          OpenTxOf(transactions, e)
             = {t \in LendRows(transactions, e) : transactions[t].actual_return_date = NullDate}

\* The ledger holds a check_in row and, after it, an open check_out or booking row.
C28_Witness ==
    \E t, u \in DOMAIN transactions :
        /\ transactions[t].transaction_type = "check_in"
        /\ transactions[t].actual_return_date # NullDate
        /\ transactions[u].transaction_type \in {"check_out", "booking"}
        /\ transactions[u].actual_return_date = NullDate
        /\ OpenTxOf(transactions, transactions[u].equipment_id) = {u}

\* ------------------------------------------------------------- concurrent callers
\* One admin and one available item, as createEquipment leaves it.
InitConc ==
    /\ admins = (1 :> [id |-> 1, username |-> "admin", email |-> "admin@test.com"])
    /\ equipment = (1 :> NewEquipment(1, [name |-> "Mixer", serial_number |-> "SN1",
                                          description |-> "", category |-> "Audio",
                                          brand |-> "Yamaha", model |-> UNDEF,
                                          status |-> "available"], MaxTime))
    /\ transactions = <<>>
    /\ nextEquipId = 2
    /\ nextTxId = 1
    /\ now = MaxTime
    /\ nextAdminId = 2
    /\ forced = {}
    /\ calls = [p \in Procs |-> Idle]

\* Caller `p` has no invocation in flight.
Idling(p) == calls[p].pc \in {"idle", "done"}

\* The invocations in flight that will still insert a transaction row.
Inserting == {q \in Procs : ~Idling(q) /\ calls[q].op \in {"checkOut", "book", "checkIn"}}

\* Caller `p` enters handler `op`, whose first statement is `pc`, with `input`.
Enter(p, op, pc, input) ==
    /\ Idling(p)
    /\ calls' = [calls EXCEPT ![p] = Entered(op, pc, input)]
    /\ UNCHANGED <<admins, equipment, transactions, nextEquipId, nextTxId, nextAdminId, now, forced>>

\* The store executes the statement caller `p` awaits, as one atomic step.
Execute(p) ==
    /\ ~Idling(p)
    /\ \E s \in Statement(World, calls[p]) :
          /\ Become(s.w)
          /\ calls' = [calls EXCEPT ![p] = s.c]

EnterCheckOut(p) ==
    /\ nextTxId + Cardinality(Inserting) <= MaxTx
    /\ \E input \in CheckOutEquipmentInputs : Enter(p, "checkOut", "co_admin", input)

EnterBook(p) ==
    /\ nextTxId + Cardinality(Inserting) <= MaxTx
    /\ \E input \in BookEquipmentInputs : Enter(p, "book", "bk_admin", input)

EnterCheckIn(p) ==
    /\ nextTxId + Cardinality(Inserting) <= MaxTx
    /\ \E input \in CheckInEquipmentInputs : Enter(p, "checkIn", "ci_equipment", input)

EnterDelete(p) ==
    /\ Idling(p)
    /\ \E id \in EquipIds : Enter(p, "delete", "de_equipment_select", [id |-> id])

StepCheckOut(p) == calls[p].op = "checkOut" /\ Execute(p)
StepBook(p) == calls[p].op = "book" /\ Execute(p)
StepCheckIn(p) == calls[p].op = "checkIn" /\ Execute(p)
StepDelete(p) == calls[p].op = "delete" /\ Execute(p)

\* Two callers: the statements of their handler calls interleave.
NextConc ==
    \E p \in Procs :
        \/ EnterCheckOut(p)
        \/ StepCheckOut(p)
        \/ EnterBook(p)
        \/ StepBook(p)
        \/ EnterCheckIn(p)
        \/ StepCheckIn(p)
        \/ EnterDelete(p)
        \/ StepDelete(p)

SpecConc == InitConc /\ [][NextConc]_vars

\* ------------------------------------------------------------- claims, two callers
\* C2: two callers that check out or book the same available item never both succeed:
\* no interleaving ends with both having inserted a row that is open for that item.
C2_OneLendWins ==
    \A p, q \in Procs :
        (/\ p # q
         /\ calls[p].pc = "done" /\ calls[q].pc = "done"
         /\ calls[p].op \in {"checkOut", "book"} /\ calls[q].op \in {"checkOut", "book"}
         /\ calls[p].kind = "transaction" /\ calls[q].kind = "transaction"
         /\ calls[p].input.equipment_id = calls[q].input.equipment_id)
        => ~ \A r \in calls[p].rows \cup calls[q].rows :
                /\ r.id \in DOMAIN transactions
                /\ transactions[r.id].actual_return_date = NullDate

\* ------------------------------------------------------------- the catalog over time
\* An empty store with one admin, at the first instant of the clock.
InitTimed ==
    /\ admins = (1 :> [id |-> 1, username |-> "admin", email |-> "admin@test.com"])
    /\ equipment = <<>>
    /\ transactions = <<>>
    /\ nextEquipId = 1
    /\ nextTxId = 1
    /\ now = 0
    /\ nextAdminId = 2
    /\ forced = {}
    /\ calls = [p \in Procs |-> Idle]

\* Time passes between two calls.
Tick ==
    /\ now < MaxTime
    /\ now' = now + 1
    /\ UNCHANGED <<admins, equipment, transactions, nextEquipId, nextTxId, nextAdminId, forced, calls>>

\* One caller of the catalog handlers, with the clock running between and inside calls.
NextTimed ==
    \/ Tick
    \/ CallCreateEquipment
    \/ CallUpdateEquipment
    \/ CallUpdateEquipmentStatus

SpecTimed == InitTimed /\ [][NextTimed]_vars

\* C19: updateEquipment with no field to update on an existing item returns the stored
\* record and writes nothing: every field of every stored item, updated_at and
\* created_at included, is unchanged.
C19_NoOpUpdate ==
    \A id \in DOMAIN equipment :
        \A fin \in updateEquipment(World, id, NoPatch) :
            /\ fin.c.kind = "equipment"
            /\ fin.c.rows = {equipment[id]}
            /\ StoreUnchanged(fin.w)

\* An item last written before the present instant, so that a write would move its
\* updated_at, on which the update without fields returns.
C19_Witness ==
    \E id \in DOMAIN equipment :
        /\ equipment[id].updated_at < now
        /\ \E fin \in updateEquipment(World, id, NoPatch) : fin.c.kind = "equipment"

\* ------------------------------------------------------------- concurrent check-ins
\* One admin and one item that Alice has checked out: the store after createEquipment
\* and checkOutEquipment.
InitConcIn ==
    /\ admins = (1 :> [id |-> 1, username |-> "admin", email |-> "admin@test.com"])
    /\ equipment = (1 :> NewEquipment(1, [name |-> "Mixer", serial_number |-> "SN1",
                                          description |-> "", category |-> "Audio",
                                          brand |-> "Yamaha", model |-> UNDEF,
                                          status |-> "checked_out"], MaxTime))
    /\ transactions = (1 :> CheckOutRow(1, [equipment_id |-> 1, admin_id |-> 1,
                                            user_name |-> "Alice", user_contact |-> UNDEF,
                                            notes |-> "", expected_return_date |-> UndefDate],
                                        MaxTime))
    /\ nextEquipId = 2
    /\ nextTxId = 2
    /\ now = MaxTime
    /\ nextAdminId = 2
    /\ forced = {}
    /\ calls = [p \in Procs |-> Idle]

\* Caller `p` enters checkInEquipment; the ledger, which starts with one row, takes
\* MaxTx more.
EnterCheckInLent(p) ==
    /\ nextTxId + Cardinality(Inserting) <= MaxTx + 1
    /\ \E input \in CheckInEquipmentInputs : Enter(p, "checkIn", "ci_equipment", input)

\* Two callers of checkInEquipment whose statements interleave.
NextConcIn ==
    \E p \in Procs :
        \/ EnterCheckInLent(p)
        \/ StepCheckIn(p)

SpecConcIn == InitConcIn /\ [][NextConcIn]_vars

\* C20: two callers that check in the same checked_out item with one open row never
\* both succeed: no interleaving appends two check_in rows for the one checkout.
C20_OneCheckInWins ==
    /\ Cardinality({t \in TxOf(transactions, 1) :
                       transactions[t].transaction_type = "check_in"}) <= 1
    /\ \A p, q \in Procs :
          (/\ p # q
           /\ calls[p].pc = "done" /\ calls[q].pc = "done"
           /\ calls[p].op = "checkIn" /\ calls[q].op = "checkIn"
           /\ calls[p].input.equipment_id = 1 /\ calls[q].input.equipment_id = 1)
          => ~(calls[p].kind = "transaction" /\ calls[q].kind = "transaction")

\* ------------------------------------------------------------- deletion against lending
\* The ledger of an item that Alice checked out and admin 1 checked in.
ReturnedLedger ==
    (1 :> [CheckOutRow(1, [equipment_id |-> 1, admin_id |-> 1,
                           user_name |-> "Alice", user_contact |-> UNDEF,
                           notes |-> "", expected_return_date |-> UndefDate], MaxTime)
              EXCEPT !.actual_return_date = MaxTime])
    @@ (2 :> CheckInRow(2, [equipment_id |-> 1, admin_id |-> 1, notes |-> UNDEF], MaxTime))

\* One admin and one available item with a closed history: the store after
\* createEquipment, checkOutEquipment and checkInEquipment.
InitConcDel ==
    /\ admins = (1 :> [id |-> 1, username |-> "admin", email |-> "admin@test.com"])
    /\ equipment = (1 :> NewEquipment(1, [name |-> "Mixer", serial_number |-> "SN1",
                                          description |-> "", category |-> "Audio",
                                          brand |-> "Yamaha", model |-> UNDEF,
                                          status |-> "available"], MaxTime))
    /\ transactions = ReturnedLedger
    /\ nextEquipId = 2
    /\ nextTxId = 3
    /\ now = MaxTime
    /\ nextAdminId = 2
    /\ forced = {}
    /\ calls = [p \in Procs |-> Idle]

\* Caller `p` enters checkOutEquipment; the ledger, which starts with two rows, takes
\* MaxTx more.
EnterCheckOutReturned(p) ==
    /\ nextTxId + Cardinality(Inserting) <= MaxTx + 2
    /\ \E input \in CheckOutEquipmentInputs : Enter(p, "checkOut", "co_admin", input)

\* Caller `p` enters bookEquipment.
EnterBookReturned(p) ==
    /\ nextTxId + Cardinality(Inserting) <= MaxTx + 2
    /\ \E input \in BookEquipmentInputs : Enter(p, "book", "bk_admin", input)

\* Two callers of deleteEquipment, checkOutEquipment and bookEquipment whose statements
\* interleave.
NextConcDel ==
    \E p \in Procs :
        \/ EnterCheckOutReturned(p)
        \/ StepCheckOut(p)
        \/ EnterBookReturned(p)
        \/ StepBook(p)
        \/ EnterDelete(p)
        \/ StepDelete(p)

SpecConcDel == InitConcDel /\ [][NextConcDel]_vars

\* The callers whose last call, a checkOutEquipment or bookEquipment of item 1, returned
\* the row it inserted.
LentItem ==
    {p \in Procs : /\ calls[p].pc = "done"
                   /\ calls[p].op \in {"checkOut", "book"}
                   /\ calls[p].input.equipment_id = 1
                   /\ calls[p].kind = "transaction"}

\* The callers whose last call was a deleteEquipment of item 1 that has ended.
DeletedItem ==
    {p \in Procs : /\ calls[p].pc = "done"
                   /\ calls[p].op = "delete"
                   /\ calls[p].input.id = 1}

\* C21: whenever no call is in flight, the deleteEquipment calls and the
\* checkOutEquipment and bookEquipment calls on item 1 have ended in one of two ways:
\* the item and all its transactions are gone and no checkout or booking of it
\* succeeded, or the item is there with its whole prior history, the row of every
\* successful checkout or booking is in the ledger and open, and every deleteEquipment
\* of it failed with the active-transactions error.
C21_DeleteAtomic ==
    (\A p \in Procs : Idling(p))
    => \/ /\ 1 \notin DOMAIN equipment
          /\ TxOf(transactions, 1) = {}
          /\ LentItem = {}
       \/ /\ 1 \in DOMAIN equipment
          /\ \A t \in DOMAIN ReturnedLedger :
                t \in DOMAIN transactions /\ transactions[t] = ReturnedLedger[t]
          /\ \A p \in LentItem :
                \A r \in calls[p].rows :
                   /\ r.id \in DOMAIN transactions
                   /\ transactions[r.id].actual_return_date = NullDate
          /\ \A p \in DeletedItem :
                calls[p].kind = "error" /\ calls[p].err = ActiveTransactions

\* ------------------------------------------------------------- lending over time
\* One admin and one available item, at the first instant of the clock.
InitTimedLend ==
    /\ admins = (1 :> [id |-> 1, username |-> "admin", email |-> "admin@test.com"])
    /\ equipment = (1 :> NewEquipment(1, [name |-> "Mixer", serial_number |-> "SN1",
                                          description |-> "", category |-> "Audio",
                                          brand |-> "Yamaha", model |-> UNDEF,
                                          status |-> "available"], 0))
    /\ transactions = <<>>
    /\ nextEquipId = 2
    /\ nextTxId = 1
    /\ now = 0
    /\ nextAdminId = 2
    /\ forced = {}
    /\ calls = [p \in Procs |-> Idle]

\* One caller of the lifecycle handlers and of the status override, with the clock
\* running between and inside calls.
NextTimedLend ==
    \/ Tick
    \/ CallCheckOutEquipment
    \/ CallBookEquipment
    \/ CallCheckInEquipment
    \/ CallUpdateEquipmentStatus

SpecTimedLend == InitTimedLend /\ [][NextTimedLend]_vars

\* The rows of the current ledger that differ in `w`.
ChangedRows(w) ==
    {t \in DOMAIN transactions : t \notin DOMAIN w.transactions \/ w.transactions[t] # transactions[t]}

\* C24: a checkInEquipment that succeeds changes at most one row that was in the
\* ledger: when the item has rows with a null actual_return_date it stamps the
\* actual_return_date of one of them whose created_at is the greatest and changes
\* nothing else of it; closed rows, the other open rows and the rows of other items
\* are as they were.
C24_ClosesMostRecentOnly ==
    \A input \in CheckInEquipmentInputs :
        \A fin \in checkInEquipment(World, input) :
            fin.c.kind = "transaction"
            => LET open == OpenTxOf(transactions, input.equipment_id)
               IN /\ Cardinality(ChangedRows(fin.w)) <= 1
                  /\ open = {} => ChangedRows(fin.w) = {}
                  /\ open # {}
                     => \E t \in open :
                           /\ ChangedRows(fin.w) = {t}
                           /\ \A u \in open : transactions[u].created_at <= transactions[t].created_at
                           /\ fin.w.transactions[t].actual_return_date # NullDate
                           /\ fin.w.transactions[t] =
                                 [transactions[t] EXCEPT !.actual_return_date =
                                     fin.w.transactions[t].actual_return_date]

\* The item has two open rows, the second created later than the first, and a check-in
\* closes the second and leaves the first open.
C24_Witness ==
    \E t, u \in OpenTxOf(transactions, 1) :
        /\ transactions[t].created_at < transactions[u].created_at
        /\ \E input \in CheckInEquipmentInputs :
              \E fin \in checkInEquipment(World, input) :
                 /\ fin.c.kind = "transaction"
                 /\ fin.w.transactions[u].actual_return_date # NullDate
                 /\ fin.w.transactions[t].actual_return_date = NullDate

\* C29: a checkInEquipment that succeeds uses one timestamp: the actual_return_date it
\* stamps on the row it reconciles is the actual_return_date, and the
\* transaction_date, of the check_in row it appends.
C29_OneCheckInTimestamp ==
    \A input \in CheckInEquipmentInputs :
        \A fin \in checkInEquipment(World, input) :
            fin.c.kind = "transaction"
            => \A row \in fin.c.rows :
                  /\ row.transaction_date = row.actual_return_date
                  /\ \A t \in ChangedRows(fin.w) :
                        fin.w.transactions[t].actual_return_date = row.actual_return_date

\* ------------------------------------------------------------- the lifecycle alone
\* createEquipment called with status available.
CallCreateAvailableEquipment ==
    /\ nextEquipId \in EquipIds
    /\ \E input \in {i \in CreateEquipmentInputs : i.status = "available"} :
          \E fin \in createEquipment(World, input) : Become(fin.w)
    /\ UNCHANGED calls

\* One caller of the lifecycle handlers only: no status override, no catalog update,
\* and every item is created available.
NextLifecycle ==
    \/ CallCreateAvailableEquipment
    \/ CallCheckOutEquipment
    \/ CallBookEquipment
    \/ CallCheckInEquipment
    \/ CallDeleteEquipment

SpecLifecycle == Init /\ [][NextLifecycle]_vars

\* C26: under createEquipment with status available, checkOutEquipment, bookEquipment,
\* checkInEquipment and deleteEquipment called one after the other, an item is
\* checked_out exactly when it has exactly one row with a null actual_return_date and
\* that row is a check_out, booked exactly when it has exactly one such row and it is a
\* booking, available exactly when it has none, and never in maintenance.
C26_StatusMatchesLedger ==
    \A e \in DOMAIN equipment :
        LET open == OpenTxOf(transactions, e)
        IN /\ equipment[e].status # "maintenance"
           /\ equipment[e].status = "checked_out"
              <=> \E t \in open : open = {t} /\ transactions[t].transaction_type = "check_out"
           /\ equipment[e].status = "booked"
              <=> \E t \in open : open = {t} /\ transactions[t].transaction_type = "booking"
           /\ equipment[e].status = "available" <=> open = {}

\* One item is checked_out under its open check_out row while the other is booked under
\* its open booking row.
C26_Witness ==
    \E e, f \in DOMAIN equipment :
        /\ equipment[e].status = "checked_out"
        /\ \E t \in OpenTxOf(transactions, e) : transactions[t].transaction_type = "check_out"
        /\ equipment[f].status = "booked"
        /\ \E t \in OpenTxOf(transactions, f) : transactions[t].transaction_type = "booking"

\* An item that was lent and checked in by an admin that does not exist: it is
\* available and its one row is closed, with no check_in row.
ClosedByFailedCheckIn ==
    \E e \in DOMAIN equipment :
        /\ equipment[e].status = "available"
        /\ TxOf(transactions, e) # {}
        /\ \A t \in TxOf(transactions, e) :
              /\ transactions[t].transaction_type # "check_in"
              /\ transactions[t].actual_return_date # NullDate

\* ------------------------------------------------------------- concurrent check-ins over time
\* One admin and one item that Alice checked out at the first instant of the clock.
InitConcInTimed ==
    /\ admins = (1 :> [id |-> 1, username |-> "admin", email |-> "admin@test.com"])
    /\ equipment = (1 :> NewEquipment(1, [name |-> "Mixer", serial_number |-> "SN1",
                                          description |-> "", category |-> "Audio",
                                          brand |-> "Yamaha", model |-> UNDEF,
                                          status |-> "checked_out"], 0))
    /\ transactions = (1 :> CheckOutRow(1, [equipment_id |-> 1, admin_id |-> 1,
                                            user_name |-> "Alice", user_contact |-> UNDEF,
                                            notes |-> "", expected_return_date |-> UndefDate],
                                        0))
    /\ nextEquipId = 2
    /\ nextTxId = 2
    /\ now = 0
    /\ nextAdminId = 2
    /\ forced = {}
    /\ calls = [p \in Procs |-> Idle]

\* Two callers of checkInEquipment whose statements interleave while the clock runs.
NextConcInTimed ==
    \/ Tick
    \/ \E p \in Procs :
          \/ EnterCheckInLent(p)
          \/ StepCheckIn(p)

SpecConcInTimed == InitConcInTimed /\ [][NextConcInTimed]_vars

\* Row `t` of the ledger is written by this step at most by closing it: its
\* actual_return_date goes from null to a date and nothing else of it changes.
ClosedOrKept(t) ==
    \/ transactions'[t] = transactions[t]
    \/ /\ transactions[t].actual_return_date = NullDate
       /\ transactions'[t].actual_return_date # NullDate
       /\ transactions'[t] =
             [transactions[t] EXCEPT !.actual_return_date = transactions'[t].actual_return_date]

\* C27: a transaction row, once inserted, stays in the ledger as it is but for its
\* actual_return_date, which is written at most once, from null to a date: no step of
\* a checkInEquipment, concurrent ones included, overwrites a non-null
\* actual_return_date or changes another column.
C27_WriteOnce ==
    [][\A t \in DOMAIN transactions : t \in DOMAIN transactions' /\ ClosedOrKept(t)]_vars

\* ------------------------------------------------------------- admin credentials
\* A store with no admin.
InitAdmins ==
    /\ admins = <<>>
    /\ equipment = <<>>
    /\ transactions = <<>>
    /\ nextEquipId = 1
    /\ nextTxId = 1
    /\ nextAdminId = 1
    /\ now = MaxTime
    /\ forced = {}
    /\ calls = [p \in Procs |-> Idle]

CallCreateAdmin ==
    /\ nextAdminId <= MaxAdmins
    /\ \E input \in CreateAdminInputs :
          \E fin \in createAdmin(World, input) : Become(fin.w)
    /\ UNCHANGED calls

\* loginAdmin reads only; caller 1 keeps what it returned.
CallLoginAdmin ==
    \E input \in LoginAdminInputs :
        \E fin \in loginAdmin(World, input) :
            /\ Become(fin.w)
            /\ calls' = [calls EXCEPT ![1] = fin.c]

\* One caller of createAdmin and loginAdmin.
NextAdmins ==
    \/ CallCreateAdmin
    \/ CallLoginAdmin

SpecAdmins == InitAdmins /\ [][NextAdmins]_vars

\* C30: after a createAdmin(u, email, p) that succeeds, loginAdmin(u, p) returns the
\* admin created and loginAdmin(u, p') returns null for every other password p'; the
\* password_hash stored is not the password.
C30_CredentialRoundTrip ==
    \A input \in CreateAdminInputs :
        \A fin \in createAdmin(World, input) :
            fin.c.kind = "admin"
            => \A row \in fin.c.rows :
                  /\ row.password_hash # input.password
                  /\ \A pw \in Passwords :
                        \A back \in loginAdmin(fin.w, [username |-> input.username,
                                                      password |-> pw]) :
                           IF pw = input.password
                           THEN back.c.kind = "admin" /\ back.c.rows = {row}
                           ELSE back.c.kind = "null"

\* What does hold of the two handlers: the stored password_hash is never the password,
\* and loginAdmin with another password than the one given to createAdmin returns null.
WrongPasswordRefused ==
    \A input \in CreateAdminInputs :
        \A fin \in createAdmin(World, input) :
            fin.c.kind = "admin"
            => \A row \in fin.c.rows :
                  /\ row.password_hash # input.password
                  /\ \A pw \in Passwords \ {input.password} :
                        \A back \in loginAdmin(fin.w, [username |-> input.username,
                                                      password |-> pw]) :
                           back.c.kind = "null"
====
